---- MODULE Spec2Model ----
(***************************************************************************)
(* The event-ingestion admission path of sentry/coreapi.py:                *)
(*   ClientAuthHelper.auth_from_request      (extract the Auth claim)      *)
(*   ClientApiHelper.project_key_from_auth   (resolve the ProjectKey)      *)
(*   ClientContext.bind_project / bind_auth  (bind the request context)    *)
(*   ClientApiHelper.insert_data_to_database (cache the payload, enqueue)  *)
(*                                                                         *)
(* Conventions.  A Python string is a tuple of one-character strings, so   *)
(* that slicing, lower() and the key pattern are computed, not assumed.    *)
(* An optional value (Python None) is None == <<>>, a present value v is   *)
(* Some(v) == <<v>>.  A dict is a function from keys to values.            *)
(***************************************************************************)
EXTENDS Integers, Sequences, FiniteSets, Bags, TLC

----------------------------------------------------------------------------
(* Python values *)

None == <<>>

Some(v) == <<v>>

\* dict.get(k): None when the key is missing
Get(d, k) == IF k \in DOMAIN d THEN Some(d[k]) ELSE None

\* Python truthiness of a dict: not empty
Nonempty(d) == DOMAIN d /= {}

\* the dict of a set of <<key, value>> pairs
Dict(pairs) == [k \in {p[1] : p \in pairs} |-> (CHOOSE p \in pairs : p[1] = k)[2]]

\* d[k] = v
Put(d, k, v) == [x \in DOMAIN d \cup {k} |-> IF x = k THEN v ELSE d[x]]

\* Python truthiness of an optional string: None and "" are falsy
Truthy(o) == o /= None /\ o[1] /= <<>>

\* s[:n]
Take(s, n) == SubSeq(s, 1, IF Len(s) < n THEN Len(s) ELSE n)

\* str.lower() on one character, over the letters the model's headers use
LowerChar(c) ==
    CASE c = "S" -> "s" [] c = "E" -> "e" [] c = "N" -> "n" [] c = "T" -> "t"
      [] c = "R" -> "r" [] c = "Y" -> "y" [] c = "B" -> "b" [] c = "A" -> "a"
      [] c = "I" -> "i" [] c = "C" -> "c" [] OTHER -> c

\* str.lower()
Lower(s) == [i \in 1..Len(s) |-> LowerChar(s[i])]

\* six.text_type(x): the text of a value; text_type(None) is the string "None"
text_type(o) == IF o = None THEN <<"N", "o", "n", "e">> ELSE o[1]

\* bytes.decode("latin1"): every byte becomes the code point of the same
\* number; the value changes from a byte string to a text string
decode_latin1(v) == [t |-> "text", s |-> v.s]

----------------------------------------------------------------------------
(* Literals of coreapi.py *)

\* the length of the prefixes "sentry_" and "sentry " that the [:7] slices take
PrefixLen == 7

\* "sentry_", the reserved prefix of the query parameters
sentry_ == <<"s", "e", "n", "t", "r", "y", "_">>

\* "sentry ", the scheme token of the credential headers
sentry_sp == <<"s", "e", "n", "t", "r", "y", " ">>

sentry_key == sentry_ \o <<"k", "e", "y">>

sentry_secret == sentry_ \o <<"s", "e", "c", "r", "e", "t">>

sentry_version == sentry_ \o <<"v", "e", "r", "s", "i", "o", "n">>

sentry_client == sentry_ \o <<"c", "l", "i", "e", "n", "t">>

\* Origin: null
null == <<"n", "u", "l", "l">>

\* APIError.http_status, APIUnauthorized.http_status, APIForbidden.http_status
APIError_http_status == 400

APIUnauthorized_http_status == 401

APIForbidden_http_status == 403

\* raise APIUnauthorized(msg)
APIUnauthorized(msg) ==
    [exc |-> "APIUnauthorized", http_status |-> APIUnauthorized_http_status, msg |-> msg]

\* raise APIForbidden(msg)
APIForbidden(msg) ==
    [exc |-> "APIForbidden", http_status |-> APIForbidden_http_status, msg |-> msg]

\* raise SuspiciousOperation(msg): django's exception, answered as a bad request
SuspiciousOperation(msg) ==
    [exc |-> "SuspiciousOperation", http_status |-> APIError_http_status, msg |-> msg]

\* the result of a call: a returned value or a raised exception
Return(v) == [ok |-> TRUE, value |-> Some(v), error |-> None]

Raise(e) == [ok |-> FALSE, value |-> None, error |-> Some(e)]

\* The taxonomy the specification names the exceptions by
Taxonomy(e) ==
    CASE e.exc = "APIUnauthorized" -> "Unauthenticated"
      [] e.exc = "APIForbidden" -> "Forbidden"
      [] e.exc = "SuspiciousOperation" -> "MalformedRequest"
      [] OTHER -> e.exc

----------------------------------------------------------------------------
(* The credential store: ProjectKey *)

\* the length of a public key: 32 hexadecimal digits
ApiKeyLen == 32

HexChars == {"0", "1", "2", "3", "4", "5", "6", "7", "8", "9",
             "a", "b", "c", "d", "e", "f"}

\* ProjectKey.looks_like_api_key: the fixed alphabet/length pattern
looks_like_api_key(k) == Len(k) = ApiKeyLen /\ \A i \in 1..Len(k) : k[i] \in HexChars

Rep(c, n) == [i \in 1..n |-> c]

KeyA == Rep("a", ApiKeyLen)   \* active, store access

KeyI == Rep("b", ApiKeyLen)   \* is_active = False

KeyN == Rep("c", ApiKeyLen)   \* roles.store = False

KeyD == Rep("e", ApiKeyLen)   \* is_active = False and roles.store = False

KeyU == Rep("d", ApiKeyLen)   \* well formed, not provisioned

KeyUpper == Rep("A", ApiKeyLen)   \* right length, wrong alphabet

KeyShort == Rep("a", ApiKeyLen - 1)   \* right alphabet, wrong length

KeyBad == <<"x", "'", ";">>   \* garbage

SecA == <<"s", "A">>

SecI == <<"s", "I">>

SecN == <<"s", "N">>

SecWrong == <<"s", "X">>

\* the provisioned keys, by public key
ProjectKeys ==
    (KeyA :> [public_key |-> KeyA, secret_key |-> SecA, project_id |-> 1,
              is_active |-> TRUE, roles_store |-> TRUE])
    @@ (KeyI :> [public_key |-> KeyI, secret_key |-> SecI, project_id |-> 1,
                 is_active |-> FALSE, roles_store |-> TRUE])
    @@ (KeyN :> [public_key |-> KeyN, secret_key |-> SecN, project_id |-> 2,
                 is_active |-> TRUE, roles_store |-> FALSE])
    @@ (KeyD :> [public_key |-> KeyD, secret_key |-> SecN, project_id |-> 2,
                 is_active |-> FALSE, roles_store |-> FALSE])

\* ProjectKey.objects.get_from_cache(public_key=k): the key, or DoesNotExist
get_from_cache(k) == Get(ProjectKeys, k)

\* django.utils.crypto.constant_time_compare: equality of the two strings
constant_time_compare(val1, val2) == val1 = val2

----------------------------------------------------------------------------
(* class Auth, and ClientAuthHelper *)

\* Auth(client, version, secret_key, public_key, is_public)
Auth(client, version, secret_key, public_key, is_public) ==
    [client |-> client, version |-> version, secret_key |-> secret_key,
     public_key |-> public_key, is_public |-> is_public]

\* a bug: only the four fields Auth reads are taken from the query string
QueryPayloadRecognizedOnly(GET) ==
    [k \in DOMAIN GET \cap {sentry_key, sentry_secret, sentry_version, sentry_client}
        |-> GET[k]]

\* a bug: every query parameter is taken, whatever its prefix
QueryPayloadUnfiltered(GET) == GET

\* {k: request.GET[k] for k in request.GET if k[:7] == "sentry_"}
QueryPayload(GET) ==
    [k \in {q \in DOMAIN GET : Take(q, PrefixLen) = sentry_} |-> GET[k]]

\* request.META.get(name, "")[:7].lower() == "sentry ".  A header is held as
\* its first seven characters (all of it when it is shorter) and the fields
\* its credential blob parses to.
HasScheme(META, name) ==
    Lower(Take(IF META[name] = None THEN <<>> ELSE META[name][1].head, PrefixLen))
        = sentry_sp

\* sentry.utils.auth.parse_auth_header: the fields of the credential blob
parse_auth_header(h) == h.fields

\* sentry.utils.http.origin_from_request: the Origin header, else the Referer
http_origin_from_request(META) ==
    IF Truthy(META.HTTP_ORIGIN) /\ META.HTTP_ORIGIN /= Some(null)
    THEN META.HTTP_ORIGIN
    ELSE META.HTTP_REFERER

\* a bug: the literal "null" is left to the generic derivation
origin_from_requestGeneric(request) == http_origin_from_request(request.META)

\* ClientAuthHelper.origin_from_request
origin_from_request(request) ==
    IF request.META.HTTP_ORIGIN = Some(null)
    THEN Some(null)
    ELSE http_origin_from_request(request.META)

\* a bug: the legacy header is taken without the check for a query payload
AuthPayloadLegacyUnchecked(request) ==
    LET result == QueryPayload(request.GET)
    IN  IF HasScheme(request.META, "HTTP_X_SENTRY_AUTH")
        THEN IF Nonempty(result)
             THEN Raise(SuspiciousOperation("Multiple authentication payloads were detected."))
             ELSE Return(parse_auth_header(request.META.HTTP_X_SENTRY_AUTH[1]))
        ELSE IF HasScheme(request.META, "HTTP_AUTHORIZATION")
        THEN Return(parse_auth_header(request.META.HTTP_AUTHORIZATION[1]))
        ELSE Return(result)

\* a bug: the legacy header is looked at before the primary header
AuthPayloadLegacyFirst(request) ==
    LET result == QueryPayload(request.GET)
        Parse(name) ==
            IF Nonempty(result)
            THEN Raise(SuspiciousOperation("Multiple authentication payloads were detected."))
            ELSE Return(parse_auth_header(request.META[name][1]))
    IN  IF HasScheme(request.META, "HTTP_AUTHORIZATION") THEN Parse("HTTP_AUTHORIZATION")
        ELSE IF HasScheme(request.META, "HTTP_X_SENTRY_AUTH") THEN Parse("HTTP_X_SENTRY_AUTH")
        ELSE Return(result)

\* the payload auth_from_request settles on, or the exception of lines 168,
\* 172 and 176
AuthPayload(request) ==
    LET result == QueryPayload(request.GET)
    IN  IF HasScheme(request.META, "HTTP_X_SENTRY_AUTH")
        THEN IF Nonempty(result)
             THEN Raise(SuspiciousOperation("Multiple authentication payloads were detected."))
             ELSE Return(parse_auth_header(request.META.HTTP_X_SENTRY_AUTH[1]))
        ELSE IF HasScheme(request.META, "HTTP_AUTHORIZATION")
        THEN IF Nonempty(result)
             THEN Raise(SuspiciousOperation("Multiple authentication payloads were detected."))
             ELSE Return(parse_auth_header(request.META.HTTP_AUTHORIZATION[1]))
        ELSE Return(result)

\* the client of the claim: sentry_client, defaulting to the user agent, a
\* byte string decoded as latin1
ClientOf(result, META) ==
    LET c == Get(result, sentry_client)
    IN  IF Truthy(c)
        THEN Some([t |-> "text", s |-> c[1]])
        ELSE IF META.HTTP_USER_AGENT /= None /\ META.HTTP_USER_AGENT[1].t = "bytes"
             THEN Some(decode_latin1(META.HTTP_USER_AGENT[1]))
             ELSE META.HTTP_USER_AGENT

\* ClientAuthHelper.auth_from_request
auth_from_request(request) ==
    LET payload == AuthPayload(request)
    IN  IF ~payload.ok
        THEN payload
        ELSE LET result == payload.value[1]
             IN  IF ~Nonempty(result)
                 THEN Raise(APIUnauthorized("Unable to find authentication information"))
                 ELSE Return(Auth(ClientOf(result, request.META),
                                  text_type(Get(result, sentry_version)),
                                  Get(result, sentry_secret),
                                  Get(result, sentry_key),
                                  Truthy(origin_from_request(request))))

----------------------------------------------------------------------------
(* ClientApiHelper.project_key_from_auth *)

\* a bug: the stored secret is compared with itself
SecretMatchesSelf(pk, auth) == constant_time_compare(pk.secret_key, pk.secret_key)

\* a bug: an empty secret is compared with the stored one
SecretMatchesNoneOnly(pk, auth) ==
    constant_time_compare(pk.secret_key,
        IF auth.secret_key /= None THEN auth.secret_key[1] ELSE pk.secret_key)

\* a bug: a claim without a secret is compared too
SecretMatchesStrict(pk, auth) ==
    auth.secret_key /= None /\ constant_time_compare(pk.secret_key, auth.secret_key[1])

\* constant_time_compare(pk.secret_key, auth.secret_key or pk.secret_key)
SecretMatches(pk, auth) ==
    constant_time_compare(pk.secret_key,
        IF Truthy(auth.secret_key) THEN auth.secret_key[1] ELSE pk.secret_key)

\* a bug: a key without store access is let through
CheckKeyIgnoresStore(pk, auth) ==
    IF ~SecretMatches(pk, auth) THEN Raise(APIUnauthorized("Invalid api key"))
    ELSE IF ~pk.is_active THEN Raise(APIUnauthorized("API key is disabled"))
    ELSE Return(pk)

\* a bug: a key without store access is answered with APIForbidden
CheckKeyForbidsStore(pk, auth) ==
    IF ~SecretMatches(pk, auth) THEN Raise(APIUnauthorized("Invalid api key"))
    ELSE IF ~pk.is_active THEN Raise(APIUnauthorized("API key is disabled"))
    ELSE IF ~pk.roles_store
    THEN Raise(APIForbidden("Key does not allow event storage access"))
    ELSE Return(pk)

\* a bug: a disabled key is let through
CheckKeyIgnoresActive(pk, auth) ==
    IF ~SecretMatches(pk, auth) THEN Raise(APIUnauthorized("Invalid api key"))
    ELSE IF ~pk.roles_store
    THEN Raise(APIUnauthorized("Key does not allow event storage access"))
    ELSE Return(pk)

\* the checks made on the key that was found
CheckKey(pk, auth) ==
    IF ~SecretMatches(pk, auth) THEN Raise(APIUnauthorized("Invalid api key"))
    ELSE IF ~pk.is_active THEN Raise(APIUnauthorized("API key is disabled"))
    ELSE IF ~pk.roles_store
    THEN Raise(APIUnauthorized("Key does not allow event storage access"))
    ELSE Return(pk)

\* a bug: the key is looked up whatever it looks like
PreLookupUnpatterned(auth) ==
    IF ~Truthy(auth.public_key) THEN Raise(APIUnauthorized("Invalid api key"))
    ELSE Return(auth.public_key[1])

\* the checks made before the credential store is touched: the key to look
\* up, or the exception
PreLookup(auth) ==
    IF ~Truthy(auth.public_key) THEN Raise(APIUnauthorized("Invalid api key"))
    ELSE IF ~looks_like_api_key(auth.public_key[1])
    THEN Raise(APIUnauthorized("Invalid api key"))
    ELSE Return(auth.public_key[1])

\* does project_key_from_auth reach ProjectKey.objects.get_from_cache?
ReachesLookup(auth) == PreLookup(auth).ok

\* ClientApiHelper.project_key_from_auth
project_key_from_auth(auth) ==
    LET pre == PreLookup(auth)
    IN  IF ~pre.ok THEN pre
        ELSE LET found == get_from_cache(pre.value[1])
             IN  IF found = None THEN Raise(APIUnauthorized("Invalid api key"))
                 ELSE CheckKey(found[1], auth)

\* ClientApiHelper.project_id_from_auth
project_id_from_auth(auth) ==
    LET r == project_key_from_auth(auth)
    IN  IF r.ok THEN Return(r.value[1].project_id) ELSE r

----------------------------------------------------------------------------
(* ClientContext *)

\* ClientContext(agent, version, project_id, ip_address) of a new helper
NewContext == [agent |-> None, version |-> None, project_id |-> None, project |-> None]

\* ClientContext.bind_project
bind_project(ctx, project) ==
    [ctx EXCEPT !.project = Some(project), !.project_id = Some(project.id)]

\* ClientContext.bind_auth
bind_auth(ctx, a) == [ctx EXCEPT !.agent = a.client, !.version = Some(a.version)]

\* the request-scoped tags set_current_project and scope.set_tag leave
NoTags == [project |-> None, agent |-> None, protocol |-> None]

ScopeTags(ctx) ==
    [project |-> ctx.project_id, agent |-> ctx.agent, protocol |-> ctx.version]

----------------------------------------------------------------------------
(* ClientApiHelper.insert_data_to_database *)

\* cache_timeout = 3600
cache_timeout == 3600

\* sentry.utils.canonical.CANONICAL_TYPES
CANONICAL_TYPES == {"CanonicalKeyDict", "CanonicalKeyView"}

\* a bug: the wrapper is cached as it came
CanonicalizeSkipped(data) == data

\* if isinstance(data, CANONICAL_TYPES): data = dict(data.items())
Canonicalize(data) ==
    IF data.type \in CANONICAL_TYPES THEN [type |-> "dict", items |-> data.items] ELSE data

\* sentry.utils.cache.cache_key_for_event: the fingerprint of the event's
\* identity, its project and its event_id
cache_key_for_event(data) == <<"e", data.items.project, data.items.event_id>>

\* a bug: the reprocessing flag is not looked at
TaskForAlwaysNormal(from_reprocessing) == "preprocess_event"

\* from_reprocessing and preprocess_event_from_reprocessing or preprocess_event
TaskFor(from_reprocessing) ==
    IF from_reprocessing THEN "preprocess_event_from_reprocessing" ELSE "preprocess_event"

\* the keyword arguments of task.delay
TaskArgs(cache_key, start_time, data) ==
    [cache_key |-> cache_key, start_time |-> start_time, event_id |-> data.items.event_id]

\* cache.set(key, value, timeout)
CacheSet(cache, key, value, timeout) == Put(cache, key, [value |-> value, timeout |-> timeout])

----------------------------------------------------------------------------
(* The requests and calls the model draws from *)

\* the fields of a credential payload; an absent field is left out
Field(k, o) == IF o = None THEN {} ELSE {<<k, o[1]>>}

Fields(key, secret, client, version) ==
    Dict(Field(sentry_key, key) \cup Field(sentry_secret, secret)
         \cup Field(sentry_client, client) \cup Field(sentry_version, version))

raven == <<"r", "a", "v", "e", "n">>

seven == <<"7">>

site == <<"h", "t", "t", "p", ":", "/", "/", "a">>

KeyOpts == {None, Some(<<>>), Some(KeyBad), Some(KeyUpper), Some(KeyShort),
            Some(KeyU), Some(KeyA), Some(KeyI), Some(KeyN), Some(KeyD)}

SecretOpts == {None, Some(<<>>), Some(SecA), Some(SecI), Some(SecN), Some(SecWrong)}

\* every pairing of a public key and a secret, and payloads without a client,
\* without a version and with an unrecognized field only
FieldDicts ==
    {Fields(k, sec, Some(raven), Some(seven)) : k \in KeyOpts, sec \in SecretOpts}
    \cup {Fields(Some(KeyA), None, c, v) : c \in {None, Some(<<>>)}, v \in {None, Some(seven)}}
    \cup {Dict({<<sentry_ \o <<"x">>, <<"1">>>>})}

NoMETA ==
    [HTTP_X_SENTRY_AUTH |-> None, HTTP_AUTHORIZATION |-> None, HTTP_ORIGIN |-> None,
     HTTP_REFERER |-> None, HTTP_USER_AGENT |-> None]

Header(head, fields) == Some([head |-> head, fields |-> fields])

\* headers that carry the scheme token in some case, and headers that do not
SchemeHeads == {<<"S", "e", "n", "t", "r", "y", " ">>, sentry_sp,
                <<"S", "E", "N", "T", "R", "Y", " ">>}

OtherHeads == {<<"B", "e", "a", "r", "e", "r", " ">>, sentry_,
               <<"S", "e", "n", "t", "r", "y">>}

HeaderOpts(fields) ==
    {None} \cup {Header(h, fields) : h \in SchemeHeads \cup OtherHeads}
    \cup {Header(sentry_sp, Dict({}))}

\* query strings: empty, without a reserved parameter, with reserved ones
QueryOpts ==
    {Dict({}), Dict({<<<<"f", "o", "o">>, <<"1">>>>}),
     Dict({<<<<"S", "e", "n", "t", "r", "y", "_", "k", "e", "y">>, KeyA>>}),
     Fields(Some(KeyN), None, Some(raven), Some(seven)),
     Put(Fields(Some(KeyN), Some(SecN), None, None), <<"f", "o", "o">>, <<"1">>),
     Dict({<<sentry_ \o <<"x">>, <<"1">>>>}),
     Dict({<<sentry_, <<>>>>})}

\* which channels carry a payload: the primary header names KeyA, the legacy
\* header KeyI and the query string KeyN
ChannelRequests ==
    {[GET |-> q,
      META |-> [NoMETA EXCEPT !.HTTP_X_SENTRY_AUTH = p, !.HTTP_AUTHORIZATION = l]] :
        q \in QueryOpts,
        p \in HeaderOpts(Fields(Some(KeyA), Some(SecA), Some(raven), Some(seven))),
        l \in HeaderOpts(Fields(Some(KeyI), None, Some(raven), Some(seven)))}

\* one channel, every payload
FieldRequests ==
    {[GET |-> f, META |-> NoMETA] : f \in FieldDicts}
    \cup {[GET |-> Dict({}),
           META |-> [NoMETA EXCEPT !.HTTP_X_SENTRY_AUTH = Header(sentry_sp, f)]] :
             f \in FieldDicts}
    \cup {[GET |-> Dict({}),
           META |-> [NoMETA EXCEPT !.HTTP_AUTHORIZATION = Header(sentry_sp, f)]] :
             f \in FieldDicts}

UserAgents == {None, Some([t |-> "bytes", s |-> <<"u", "a">>]),
               Some([t |-> "text", s |-> <<"u", "a">>])}

\* the Origin, Referer and User-Agent headers, of a request with one payload
OriginRequests ==
    {[GET |-> Dict({}),
      META |-> [HTTP_X_SENTRY_AUTH |-> Header(sentry_sp, Fields(Some(KeyA), None, c, Some(seven))),
                HTTP_AUTHORIZATION |-> None, HTTP_ORIGIN |-> o, HTTP_REFERER |-> r,
                HTTP_USER_AGENT |-> u]] :
        c \in {None, Some(raven)}, o \in {None, Some(<<>>), Some(null), Some(site)},
        r \in {None, Some(<<>>), Some(site)}, u \in UserAgents}
    \cup {[GET |-> Dict({}),
           META |-> [NoMETA EXCEPT !.HTTP_ORIGIN = o, !.HTTP_REFERER = r]] :
             o \in {None, Some(null), Some(site)}, r \in {None, Some(site)}}

\* the requests auth_from_request and project_key_from_auth are checked on
AuthRequests == ChannelRequests \cup FieldRequests \cup OriginRequests

HeaderRequest(fields) ==
    [GET |-> Dict({}), META |-> [NoMETA EXCEPT !.HTTP_X_SENTRY_AUTH = Header(sentry_sp, fields)]]

\* the requests the gateway is run on: one of each outcome of the two steps
GatewayRequests ==
    {\* scenario A: the header names an active key with store access, no secret
     HeaderRequest(Fields(Some(KeyA), None, Some(raven), Some(seven))),
     \* the key and its secret, in the legacy header
     [GET |-> Dict({}),
      META |-> [NoMETA EXCEPT !.HTTP_AUTHORIZATION =
                    Header(sentry_sp, Fields(Some(KeyA), Some(SecA), None, Some(seven))),
                !.HTTP_USER_AGENT = Some([t |-> "bytes", s |-> <<"u", "a">>])]],
     \* scenario B: the key is disabled
     HeaderRequest(Fields(Some(KeyI), None, Some(raven), Some(seven))),
     \* scenario C: a query payload and a header payload
     [GET |-> Fields(Some(KeyA), None, None, None),
      META |-> [NoMETA EXCEPT !.HTTP_X_SENTRY_AUTH =
                    Header(sentry_sp, Fields(Some(KeyA), None, Some(raven), Some(seven)))]],
     \* no payload
     [GET |-> Dict({}), META |-> NoMETA],
     \* a payload without a public key
     [GET |-> Dict({<<sentry_ \o <<"x">>, <<"1">>>>}), META |-> NoMETA],
     \* a public key that is garbage
     HeaderRequest(Fields(Some(KeyBad), None, Some(raven), Some(seven))),
     \* a public key that is not provisioned
     HeaderRequest(Fields(Some(KeyU), None, Some(raven), Some(seven))),
     \* the wrong secret
     HeaderRequest(Fields(Some(KeyA), Some(SecWrong), Some(raven), Some(seven))),
     \* a key without store access
     HeaderRequest(Fields(Some(KeyN), Some(SecN), Some(raven), Some(seven)))}

\* events: the same event as a dict and in a canonical wrapper, and another
Event1 == [event_id |-> "e1", project |-> 1, message |-> "m1"]

Event2 == [event_id |-> "e2", project |-> 1, message |-> "m2"]

Payloads == {[type |-> "dict", items |-> Event1],
             [type |-> "CanonicalKeyDict", items |-> Event1],
             [type |-> "dict", items |-> Event2]}

\* attachments: None, an empty list, a minidump
AttachmentOpts == {None, Some(<<>>), Some(<<"minidump">>)}

\* start_time: None, or the time the caller received the event at
StartTimeOpts == {None, Some(0)}

\* time() returns a time in 1..MaxTime
MaxTime == 1

\* the arguments of a call of insert_data_to_database
Calls ==
    [data : Payloads, start_time : StartTimeOpts, from_reprocessing : BOOLEAN,
     attachments : AttachmentOpts]

----------------------------------------------------------------------------
(* The state *)

\* the admissions that run concurrently, one per inbound request
Admissions == {"a1", "a2"}

VARIABLES
    pc,                 \* where each admission stands
    request,            \* the inbound request
    auth,               \* the Auth that auth_from_request returned
    lookups,            \* the calls of ProjectKey.objects.get_from_cache
    project_key,        \* the ProjectKey that project_key_from_auth returned
    context,            \* helper.context, the ClientContext
    tags,               \* the request-scoped tags of the sdk scope
    call,               \* the arguments of insert_data_to_database
    frame,              \* its locals: data, start_time, cache_key
    outcome,            \* the exception that ended the admission
    default_cache,      \* sentry.cache.default_cache
    attachment_cache,   \* sentry.attachments.attachment_cache
    queues,             \* the tasks delayed, by task
    returned,           \* what insert_data_to_database returned to its caller
    sets,               \* the cache writes each admission made, in order
    delays              \* the task.delay calls each admission made, in order

vars == <<pc, request, auth, lookups, project_key, context, tags, call, frame, outcome,
          returned, default_cache, attachment_cache, queues, sets, delays>>

stores == <<default_cache, attachment_cache, queues, sets, delays>>

authenticating == <<auth, lookups, project_key, context, tags>>

inserting == <<call, frame>>

\* no admission has begun: the caches and the queues are empty
Idle(requests) ==
    /\ pc = [a \in Admissions |-> IF requests[a] = None THEN "Idle" ELSE "Received"]
    /\ request = requests
    /\ auth = [a \in Admissions |-> None]
    /\ lookups = [a \in Admissions |-> 0]
    /\ project_key = [a \in Admissions |-> None]
    /\ context = [a \in Admissions |-> NewContext]
    /\ tags = [a \in Admissions |-> NoTags]
    /\ call = [a \in Admissions |-> None]
    /\ frame = [a \in Admissions |-> None]
    /\ outcome = [a \in Admissions |-> None]
    /\ returned = [a \in Admissions |-> None]
    /\ default_cache = Dict({})
    /\ attachment_cache = Dict({})
    /\ queues = [preprocess_event |-> EmptyBag,
                 preprocess_event_from_reprocessing |-> EmptyBag]
    /\ sets = [a \in Admissions |-> <<>>]
    /\ delays = [a \in Admissions |-> <<>>]

Init == Idle([a \in Admissions |-> None])

\* The gateway's transitions out of Received and Authenticating: the next
\* state when the step returned, Rejected when it raised
Gateway(from, ok) ==
    IF ~ok THEN "Rejected"
    ELSE IF from = "Received" THEN "Authenticating" ELSE "Authorized"

\* a request arrives
Receive(a) ==
    /\ pc[a] = "Idle"
    /\ \E r \in GatewayRequests : request' = [request EXCEPT ![a] = Some(r)]
    /\ pc' = [pc EXCEPT ![a] = "Received"]
    /\ UNCHANGED <<authenticating, inserting, outcome, returned, stores>>

\* Received -> Authenticating: auth_from_request(request)
Extract(a) ==
    /\ pc[a] = "Received"
    /\ LET r == auth_from_request(request[a][1])
       IN  /\ auth' = [auth EXCEPT ![a] = r.value]
           /\ outcome' = [outcome EXCEPT ![a] = r.error]
           /\ pc' = [pc EXCEPT ![a] = Gateway("Received", r.ok)]
    /\ UNCHANGED <<request, lookups, project_key, context, tags, inserting, returned, stores>>

\* Authenticating -> Authorized: project_key_from_auth(auth), then
\* bind_project and bind_auth
Resolve(a) ==
    /\ pc[a] = "Authenticating"
    /\ LET r == project_key_from_auth(auth[a][1])
           ctx == bind_auth(bind_project(context[a], [id |-> r.value[1].project_id]),
                            auth[a][1])
       IN  /\ lookups' = [lookups EXCEPT ![a] = @ + IF ReachesLookup(auth[a][1]) THEN 1 ELSE 0]
           /\ project_key' = [project_key EXCEPT ![a] = r.value]
           /\ outcome' = [outcome EXCEPT ![a] = r.error]
           /\ pc' = [pc EXCEPT ![a] = Gateway("Authenticating", r.ok)]
           /\ context' = [context EXCEPT ![a] = IF r.ok THEN ctx ELSE @]
           /\ tags' = [tags EXCEPT ![a] = IF r.ok THEN ScopeTags(ctx) ELSE @]
    /\ UNCHANGED <<request, auth, inserting, returned, stores>>

\* the locals of insert_data_to_database before its first cache write
Locals(c, now) ==
    LET data == Canonicalize(c.data)
    IN  [data |-> data,
         start_time |-> IF c.start_time = None THEN now ELSE c.start_time[1],
         cache_key |-> cache_key_for_event(data)]

\* a bug: a failed cache write is reported as a rejection
AfterCacheSetRejects(stored) == IF stored THEN "Caching" ELSE "Rejected"

\* a bug: the exception of default_cache.set is swallowed and the call goes on
AfterCacheSetSwallowed(stored) == "Caching"

\* default_cache.set raised: nothing catches it, the call ends there
AfterCacheSet(stored) == IF stored THEN "Caching" ELSE "Failed"

\* attachment_cache.set raised: nothing catches it, the call ends there
AfterAttachmentSet(stored) == IF stored THEN "Cached" ELSE "Failed"

\* a bug: a rejected task is delayed again
AfterDelayRetries(accepted) == IF accepted THEN "Enqueued" ELSE "Cached"

\* task.delay raised: nothing catches it and nothing calls it again
AfterDelay(accepted) == IF accepted THEN "Enqueued" ELSE "Failed"

\* were the function to return the key and the event's id
ReturnValuePair(cache_key, data) == <<cache_key, data.items.event_id>>

\* the function ends after task.delay without a return statement: it returns
\* None
ReturnValue(cache_key, data) == None

\* a bug: the task is delayed a second time
DelayTwice(q, task, args) ==
    [q EXCEPT ![task] = @ (+) SetToBag({args}) (+) SetToBag({args})]

\* task.delay(...) puts one task on the task's queue
Delay(q, task, args) == [q EXCEPT ![task] = @ (+) SetToBag({args})]

\* Authorized -> Cached, first half: insert_data_to_database up to
\* default_cache.set(cache_key, data, cache_timeout), which may raise
CachePayload(a) ==
    /\ pc[a] = "Authorized"
    /\ \E c \in Calls, now \in 1..MaxTime, stored \in BOOLEAN :
         LET f == Locals(c, now)
         IN  /\ call' = [call EXCEPT ![a] = Some(c)]
             /\ frame' = [frame EXCEPT ![a] = Some(f)]
             /\ pc' = [pc EXCEPT ![a] = AfterCacheSet(stored)]
             /\ IF stored
                THEN /\ default_cache' = CacheSet(default_cache, f.cache_key, f.data, cache_timeout)
                     /\ sets' = [sets EXCEPT ![a] = Append(@, <<"default_cache", f.cache_key>>)]
                     /\ UNCHANGED outcome
                ELSE /\ outcome' = [outcome EXCEPT ![a] = Some([exc |-> "CacheUnavailable"])]
                     /\ UNCHANGED <<default_cache, sets>>
    /\ UNCHANGED <<request, authenticating, returned, attachment_cache, queues, delays>>

\* a bug: an empty list of attachments is not cached
HasAttachmentsTruthy(attachments) == attachments /= None /\ attachments[1] /= <<>>

\* if attachments is not None
HasAttachments(attachments) == attachments /= None

\* Authorized -> Cached, second half: attachment_cache.set(cache_key,
\* attachments, cache_timeout) if attachments is not None, which may raise
CacheAttachments(a) ==
    /\ pc[a] = "Caching"
    /\ LET c == call[a][1]
           f == frame[a][1]
       IN  IF ~HasAttachments(c.attachments)
           THEN /\ pc' = [pc EXCEPT ![a] = "Cached"]
                /\ UNCHANGED <<attachment_cache, sets, outcome>>
           ELSE \E stored \in BOOLEAN :
                  /\ pc' = [pc EXCEPT ![a] = AfterAttachmentSet(stored)]
                  /\ IF stored
                     THEN /\ attachment_cache' =
                               CacheSet(attachment_cache, f.cache_key, c.attachments[1],
                                        cache_timeout)
                          /\ sets' = [sets EXCEPT ![a] =
                                          Append(@, <<"attachment_cache", f.cache_key>>)]
                          /\ UNCHANGED outcome
                     ELSE /\ outcome' = [outcome EXCEPT ![a] = Some([exc |-> "CacheUnavailable"])]
                          /\ UNCHANGED <<attachment_cache, sets>>
    /\ UNCHANGED <<request, authenticating, inserting, returned, default_cache, queues,
                   delays>>

\* Cached -> Enqueued: task.delay(cache_key, start_time, event_id), which the
\* queue may reject; past it the function ends and returns
Enqueue(a) ==
    /\ pc[a] = "Cached"
    /\ LET c == call[a][1]
           f == frame[a][1]
           task == TaskFor(c.from_reprocessing)
           args == TaskArgs(f.cache_key, f.start_time, f.data)
       IN  \E accepted \in BOOLEAN :
             /\ delays' = [delays EXCEPT ![a] = Append(@, <<task, args>>)]
             /\ pc' = [pc EXCEPT ![a] = AfterDelay(accepted)]
             /\ IF accepted
                THEN /\ queues' = Delay(queues, task, args)
                     /\ returned' = [returned EXCEPT ![a] = Some(ReturnValue(f.cache_key, f.data))]
                     /\ UNCHANGED outcome
                ELSE /\ outcome' = [outcome EXCEPT ![a] = Some([exc |-> "EnqueueFailure"])]
                     /\ UNCHANGED <<queues, returned>>
    /\ UNCHANGED <<request, authenticating, inserting, default_cache, attachment_cache, sets>>

Next ==
    \E a \in Admissions :
        \/ Receive(a)
        \/ Extract(a)
        \/ Resolve(a)
        \/ CachePayload(a)
        \/ CacheAttachments(a)
        \/ Enqueue(a)

\* the gateway: concurrent admissions, from the request to the queue
Spec == Init /\ [][Next]_vars

\* one request, drawn from all of AuthRequests, taken through
\* auth_from_request and project_key_from_auth
InitAuth ==
    \E r \in AuthRequests : Idle([a \in Admissions |-> IF a = "a1" THEN Some(r) ELSE None])

NextAuth == \E a \in Admissions : Extract(a) \/ Resolve(a)

SpecAuth == InitAuth /\ [][NextAuth]_vars

----------------------------------------------------------------------------
(* Properties *)

Range(s) == {s[i] : i \in 1..Len(s)}

\* the exception an admission ended with is named e in the taxonomy
EndedWith(a, e) == outcome[a] /= None /\ Taxonomy(outcome[a][1]) = e

\* the tasks on both queues
QueuedTasks == BagCardinality(queues.preprocess_event)
               + BagCardinality(queues.preprocess_event_from_reprocessing)

\* the tasks on both queues that name the event
QueuedTasksOf(event_id) ==
    LET Of(bag) == [t \in {x \in BagToSet(bag) : x.event_id = event_id} |-> bag[t]]
    IN  BagCardinality(Of(queues.preprocess_event))
        + BagCardinality(Of(queues.preprocess_event_from_reprocessing))

\* the claim of the admission names a provisioned key that is disabled
NamesDisabledKey(a) ==
    /\ auth[a] /= None
    /\ auth[a][1].public_key /= None
    /\ auth[a][1].public_key[1] \in DOMAIN ProjectKeys
    /\ ~ProjectKeys[auth[a][1].public_key[1]].is_active

\* C1: every task that was delayed, and every task on a queue, carries a
\* cache_key that the same admission wrote the payload under before (and the
\* attachments, when there are any), and the key is in the payload cache; an
\* admission whose cache write raised ended Failed with CacheUnavailable and
\* delayed no task.
C1_EnqueuedTaskIsCached ==
    /\ \A q \in DOMAIN queues : \A t \in BagToSet(queues[q]) :
         \E a \in Admissions : <<q, t>> \in Range(delays[a])
    /\ \A a \in Admissions : \A d \in Range(delays[a]) :
         /\ <<"default_cache", d[2].cache_key>> \in Range(sets[a])
         /\ call[a][1].attachments /= None
              => <<"attachment_cache", d[2].cache_key>> \in Range(sets[a])
         /\ d[2].cache_key \in DOMAIN default_cache
    /\ \A a \in Admissions :
         EndedWith(a, "CacheUnavailable") => pc[a] = "Failed" /\ delays[a] = <<>>

\* one admission is enqueued with its attachments cached, the other failed on
\* the attachment cache after its payload was written
C1_Witness ==
    /\ pc["a1"] = "Enqueued" /\ call["a1"][1].attachments /= None
    /\ pc["a2"] = "Failed" /\ EndedWith("a2", "CacheUnavailable") /\ Len(sets["a2"]) = 1

\* C2: an admission that was rejected (extraction or resolution raised), and
\* any admission whose claim names a disabled key, has written no cache entry
\* and delayed no task; while no admission has got past the two steps, the
\* two caches and the two queues are as they were at the start.
C2_RejectedLeavesNothing ==
    /\ \A a \in Admissions :
         (pc[a] = "Rejected" \/ NamesDisabledKey(a))
           => /\ sets[a] = <<>> /\ delays[a] = <<>> /\ call[a] = None
              /\ pc[a] \in {"Authenticating", "Rejected"}
              /\ pc[a] = "Rejected"
                   => EndedWith(a, "Unauthenticated") \/ EndedWith(a, "MalformedRequest")
    /\ (\A a \in Admissions : pc[a] \in {"Idle", "Received", "Authenticating", "Rejected"})
         => /\ default_cache = Dict({}) /\ attachment_cache = Dict({})
            /\ QueuedTasks = 0

\* scenario B beside an admission that extraction rejected
C2_Witness ==
    /\ pc["a1"] = "Rejected" /\ NamesDisabledKey("a1") /\ EndedWith("a1", "Unauthenticated")
    /\ pc["a2"] = "Rejected" /\ auth["a2"] = None

Extracted(a) == request[a] /= None /\ pc[a] \notin {"Idle", "Received"}

\* project_key_from_auth has run on the admission's claim
Resolved(a) == auth[a] /= None /\ pc[a] /= "Authenticating"

\* the request has a credential header: the primary or the legacy header
\* begins with the scheme token
HasHeaderCredential(r) ==
    HasScheme(r.META, "HTTP_X_SENTRY_AUTH") \/ HasScheme(r.META, "HTTP_AUTHORIZATION")

\* the request has a query parameter with the reserved prefix
HasQueryCredential(r) == \E k \in DOMAIN r.GET : Take(k, PrefixLen) = sentry_

\* the admission ended with APIUnauthorized, status 401
Unauthorized(a) ==
    /\ pc[a] = "Rejected" /\ EndedWith(a, "Unauthenticated")
    /\ outcome[a][1].http_status = 401

\* the claim names a provisioned key
NamesKey(au) == au.public_key /= None /\ au.public_key[1] \in DOMAIN ProjectKeys

StoredKey(au) == ProjectKeys[au.public_key[1]]

\* every check but the secret's passes
OtherChecksPass(au) ==
    /\ au.public_key /= None /\ au.public_key[1] /= <<>>
    /\ looks_like_api_key(au.public_key[1])
    /\ NamesKey(au)
    /\ StoredKey(au).is_active
    /\ StoredKey(au).roles_store

\* C4: a request with a credential header (primary or legacy) and a
\* reserved-prefix query parameter is rejected by extraction as a
\* MalformedRequest: no Auth is made and the credential store is never
\* looked up.
C4_BothChannelsMalformed ==
    \A a \in Admissions :
        (Extracted(a) /\ HasHeaderCredential(request[a][1])
           /\ HasQueryCredential(request[a][1]))
          => /\ pc[a] = "Rejected" /\ EndedWith(a, "MalformedRequest")
             /\ auth[a] = None /\ lookups[a] = 0

\* the legacy header alone, with a query payload
C4_Witness ==
    /\ pc["a1"] = "Rejected" /\ EndedWith("a1", "MalformedRequest")
    /\ ~HasScheme(request["a1"][1].META, "HTTP_X_SENTRY_AUTH")
    /\ HasScheme(request["a1"][1].META, "HTTP_AUTHORIZATION")
    /\ HasQueryCredential(request["a1"][1])

\* C5: a request with no credential header and no reserved-prefix query
\* parameter is rejected by extraction with APIUnauthorized (401), and no
\* Auth is made.
C5_NeitherUnauthenticated ==
    \A a \in Admissions :
        (Extracted(a) /\ ~HasHeaderCredential(request[a][1])
           /\ ~HasQueryCredential(request[a][1]))
          => Unauthorized(a) /\ auth[a] = None /\ lookups[a] = 0

\* a query parameter without the prefix and a header of another scheme
C5_Witness ==
    /\ Unauthorized("a1") /\ auth["a1"] = None
    /\ Nonempty(request["a1"][1].GET)
    /\ request["a1"][1].META.HTTP_X_SENTRY_AUTH /= None

\* C6: a claim that names a key with is_active false or without store access
\* is rejected with APIUnauthorized (401), whatever secret it carries; the
\* key project_key_from_auth returns is active and has store access.
C6_DisabledOrNoStoreRejected ==
    \A a \in Admissions :
        Resolved(a) =>
          /\ (NamesKey(auth[a][1])
                /\ (~StoredKey(auth[a][1]).is_active \/ ~StoredKey(auth[a][1]).roles_store))
               => Unauthorized(a) /\ project_key[a] = None
          /\ pc[a] = "Authorized"
               => /\ project_key[a] /= None
                  /\ project_key[a][1].is_active /\ project_key[a][1].roles_store

\* a key without store access, named with its own secret
C6_Witness ==
    /\ Unauthorized("a1") /\ auth["a1"] /= None
    /\ auth["a1"][1].public_key = Some(KeyN) /\ auth["a1"][1].secret_key = Some(SecN)

\* C7 as claimed: a claim that supplies a secret, every other check passing,
\* is resolved iff its secret is the stored one, and a claim that supplies a
\* secret other than the stored one is rejected.
C7_SuppliedSecretMustMatch ==
    \A a \in Admissions :
        (Resolved(a) /\ auth[a][1].secret_key /= None) =>
          /\ OtherChecksPass(auth[a][1])
               => (pc[a] = "Authorized"
                     <=> auth[a][1].secret_key[1] = StoredKey(auth[a][1]).secret_key)
          /\ (NamesKey(auth[a][1])
                /\ auth[a][1].secret_key[1] /= StoredKey(auth[a][1]).secret_key)
               => Unauthorized(a)

\* C7 as amended: the same of a claim that supplies a secret that is not the
\* empty string.
C7_NonEmptySecretMustMatch ==
    \A a \in Admissions :
        (Resolved(a) /\ auth[a][1].secret_key /= None /\ auth[a][1].secret_key[1] /= <<>>) =>
          /\ OtherChecksPass(auth[a][1])
               => (pc[a] = "Authorized"
                     <=> auth[a][1].secret_key[1] = StoredKey(auth[a][1]).secret_key)
          /\ (NamesKey(auth[a][1])
                /\ auth[a][1].secret_key[1] /= StoredKey(auth[a][1]).secret_key)
               => Unauthorized(a)

\* the secret of another key, with a key every other check passes on
C7_Witness ==
    /\ Unauthorized("a1") /\ auth["a1"] /= None
    /\ OtherChecksPass(auth["a1"][1])
    /\ auth["a1"][1].secret_key = Some(SecI)

\* C8: a claim that supplies no secret is resolved iff the public key is
\* present, fits the pattern, names a provisioned key, and that key is
\* active and has store access, whatever the stored secret.
C8_NoSecretOtherChecksDecide ==
    \A a \in Admissions :
        (Resolved(a) /\ auth[a][1].secret_key = None) =>
          /\ pc[a] = "Authorized" <=> OtherChecksPass(auth[a][1])
          /\ pc[a] /= "Authorized" => Unauthorized(a)

\* no secret in the claim, a secret in the store
C8_Witness ==
    /\ pc["a1"] = "Authorized" /\ auth["a1"][1].secret_key = None
    /\ project_key["a1"][1].secret_key = SecA

\* the admission was rejected by project_key_from_auth
ResolverRejected(a) == auth[a] /= None /\ pc[a] = "Rejected"

\* the first check of project_key_from_auth that the claim fails
FailedCheck(au) ==
    IF au.public_key = None \/ au.public_key[1] = <<>> THEN "key"
    ELSE IF ~looks_like_api_key(au.public_key[1]) THEN "pattern"
    ELSE IF ~NamesKey(au) THEN "lookup"
    ELSE IF au.secret_key /= None /\ au.secret_key[1] /= <<>>
            /\ au.secret_key[1] /= StoredKey(au).secret_key THEN "secret"
    ELSE IF ~StoredKey(au).is_active THEN "is_active"
    ELSE IF ~StoredKey(au).roles_store THEN "store"
    ELSE "none"

\* the message of the rejection, by the check that failed
Reason(check) ==
    CASE check = "is_active" -> "API key is disabled"
      [] check = "store" -> "Key does not allow event storage access"
      [] OTHER -> "Invalid api key"

\* C9 as claimed: two claims that project_key_from_auth rejects leave the
\* caller the same outcome: the same exception type, status and message.
C9_RejectionsIndistinguishable ==
    \A a, b \in Admissions :
        (ResolverRejected(a) /\ ResolverRejected(b)) => outcome[a] = outcome[b]

\* C9 as amended: two claims that project_key_from_auth rejects leave the
\* same exception type, APIUnauthorized, and status, 401; the message is
\* "Invalid api key" for a missing key, a bad pattern, a lookup miss and a
\* secret mismatch, and names the check for a disabled key and for a key
\* without store access.
C9_SameTypeAndStatus ==
    /\ \A a \in Admissions :
         ResolverRejected(a) =>
           /\ outcome[a][1].exc = "APIUnauthorized"
           /\ outcome[a][1].http_status = 401
           /\ outcome[a][1].msg = Reason(FailedCheck(auth[a][1]))
    /\ \A a, b \in Admissions :
         (ResolverRejected(a) /\ ResolverRejected(b)) =>
           /\ outcome[a][1].exc = outcome[b][1].exc
           /\ outcome[a][1].http_status = outcome[b][1].http_status
           /\ ({FailedCheck(auth[a][1]), FailedCheck(auth[b][1])}
                 \subseteq {"key", "pattern", "lookup", "secret"})
                => outcome[a] = outcome[b]

\* a claim without a key and a claim whose key has no store access
C9_Witness ==
    /\ ResolverRejected("a1") /\ FailedCheck(auth["a1"][1]) = "key"
    /\ ResolverRejected("a2") /\ FailedCheck(auth["a2"][1]) = "store"
    /\ outcome["a1"] /= outcome["a2"]

\* C10: two admissions of the same event compute the same cache_key, and
\* once an admission has written the payload, the payload cache holds under
\* that key the event as a plain dict with the one-hour timeout, and holds
\* the event under no other key, however the steps of the two admissions
\* interleave.
C10_SameEventSameSlot ==
    /\ \A a, b \in Admissions :
         (frame[a] /= None /\ frame[b] /= None
            /\ call[a][1].data.items = call[b][1].data.items)
           => frame[a][1].cache_key = frame[b][1].cache_key
    /\ \A a \in Admissions :
         (frame[a] /= None /\ <<"default_cache", frame[a][1].cache_key>> \in Range(sets[a]))
           => /\ frame[a][1].cache_key \in DOMAIN default_cache
              /\ default_cache[frame[a][1].cache_key] =
                     [value |-> [type |-> "dict", items |-> call[a][1].data.items],
                      timeout |-> cache_timeout]
              /\ Cardinality({k \in DOMAIN default_cache :
                                default_cache[k].value.items = call[a][1].data.items}) = 1

\* the same event, delivered as a dict and in a canonical wrapper, both written
C10_Witness ==
    /\ \A a \in Admissions : frame[a] /= None /\ Len(sets[a]) >= 1
    /\ call["a1"][1].data.type = "dict"
    /\ call["a2"][1].data.type = "CanonicalKeyDict"
    /\ call["a1"][1].data.items = call["a2"][1].data.items
    /\ Cardinality(DOMAIN default_cache) = 1

\* the one task the admission delayed
TaskOf(a) == delays[a][1]

\* C11 as claimed: an admission that reached Enqueued has returned the pair
\* of the cache key and the event's id to its caller.
C11_ReturnsKeyAndEventId ==
    \A a \in Admissions :
        pc[a] = "Enqueued"
          => returned[a] = Some(<<frame[a][1].cache_key, call[a][1].data.items.event_id>>)

\* C11 as amended: an admission that reached Enqueued has returned None to
\* its caller; the cache key the payload was written under and the event's
\* id are the cache_key and the event_id of the task on the queue.  No other
\* admission has returned.
C11_ReturnsNoneTaskCarriesPair ==
    \A a \in Admissions :
        /\ pc[a] = "Enqueued"
             => /\ returned[a] = Some(None)
                /\ TaskOf(a)[2].cache_key = frame[a][1].cache_key
                /\ TaskOf(a)[2].event_id = call[a][1].data.items.event_id
                /\ <<"default_cache", TaskOf(a)[2].cache_key>> \in Range(sets[a])
                /\ BagIn(TaskOf(a)[2], queues[TaskOf(a)[1]])
        /\ pc[a] /= "Enqueued" => returned[a] = None

\* an admission of the second event is enqueued
C11_Witness ==
    /\ pc["a1"] = "Enqueued" /\ returned["a1"] = Some(None)
    /\ TaskOf("a1")[2].event_id = "e2"

\* C12: a request whose Origin header is the literal "null" and from which
\* an Auth is made has is_public true, whatever its Referer header is,
\* absent and empty included.
C12_NullOriginIsPublic ==
    \A a \in Admissions :
        (Extracted(a) /\ request[a][1].META.HTTP_ORIGIN = Some(null) /\ auth[a] /= None)
          => auth[a][1].is_public

\* Origin: null with no Referer header
C12_Witness ==
    /\ Extracted("a1") /\ auth["a1"] /= None /\ auth["a1"][1].is_public
    /\ request["a1"][1].META.HTTP_ORIGIN = Some(null)
    /\ request["a1"][1].META.HTTP_REFERER = None

\* C13: a task is delayed as preprocess_event_from_reprocessing when
\* from_reprocessing is set and as preprocess_event otherwise; each queue
\* holds one task for each admission in Enqueued with that flag, so the
\* other queue is left as it was.
C13_QueueByReprocessingFlag ==
    /\ \A a \in Admissions : \A d \in Range(delays[a]) :
         d[1] = IF call[a][1].from_reprocessing
                THEN "preprocess_event_from_reprocessing" ELSE "preprocess_event"
    /\ BagCardinality(queues.preprocess_event_from_reprocessing) =
         Cardinality({a \in Admissions :
                        pc[a] = "Enqueued" /\ call[a][1].from_reprocessing})
    /\ BagCardinality(queues.preprocess_event) =
         Cardinality({a \in Admissions :
                        pc[a] = "Enqueued" /\ ~call[a][1].from_reprocessing})

\* one admission of each kind, the reprocessing one enqueued alone
C13_Witness ==
    /\ pc["a1"] = "Enqueued" /\ call["a1"][1].from_reprocessing
    /\ pc["a2"] = "Cached" /\ ~call["a2"][1].from_reprocessing
    /\ BagCardinality(queues.preprocess_event_from_reprocessing) = 1
    /\ queues.preprocess_event = EmptyBag

\* the steps an admission takes, as pairs of the state left and the state
\* entered.  pc names the state reached last: Received is left by the
\* extraction (the step into Authenticating), Authenticating by the
\* resolution (the step into Authorized), Authorized and Caching by the two
\* cache writes (the step into Cached), Cached by task.delay.
Edges ==
    {<<"Idle", "Received">>,
     <<"Received", "Authenticating">>, <<"Received", "Rejected">>,
     <<"Authenticating", "Authorized">>, <<"Authenticating", "Rejected">>,
     <<"Authorized", "Caching">>, <<"Authorized", "Failed">>,
     <<"Caching", "Cached">>, <<"Caching", "Failed">>,
     <<"Cached", "Enqueued">>, <<"Cached", "Failed">>}

Terminal == {"Enqueued", "Rejected", "Failed"}

\* C14: every step of an admission is one of Edges, so that Enqueued is
\* entered only from Cached, Rejected only by the extraction and the
\* resolution, Failed only by the cache writes and task.delay; and an
\* admission in Enqueued, Rejected or Failed takes no further step: its
\* state, its outcome, what it returned, its cache writes and its delayed
\* tasks stay as they are.
C14_StateOrder ==
    [][\A a \in Admissions :
         /\ pc'[a] /= pc[a] => <<pc[a], pc'[a]>> \in Edges
         /\ pc[a] \in Terminal
              => /\ pc'[a] = pc[a] /\ outcome'[a] = outcome[a]
                 /\ returned'[a] = returned[a]
                 /\ sets'[a] = sets[a] /\ delays'[a] = delays[a]]_vars

\* one admission enqueued, the other failed on task.delay
C14_Witness ==
    /\ pc["a1"] = "Enqueued" /\ Len(sets["a1"]) = 2
    /\ pc["a2"] = "Failed" /\ EndedWith("a2", "EnqueueFailure")

\* C15: the credential store is looked up once when the claim's public key
\* is present and fits the pattern, and not at all otherwise; a claim
\* rejected without a lookup is answered "Invalid api key"; the rejection
\* names the first check, in the order key, pattern, lookup, secret,
\* is_active, store access, that the claim fails, so that the last three
\* are only made on a key that was found.
C15_ChecksInOrder ==
    \A a \in Admissions :
        Resolved(a) =>
          LET au == auth[a][1]
              wellFormed == au.public_key /= None /\ au.public_key[1] /= <<>>
                            /\ looks_like_api_key(au.public_key[1])
          IN  /\ lookups[a] = IF wellFormed THEN 1 ELSE 0
              /\ ~wellFormed => Unauthorized(a) /\ outcome[a][1].msg = "Invalid api key"
              /\ pc[a] = "Rejected" => outcome[a][1].msg = Reason(FailedCheck(au))
              /\ pc[a] = "Authorized" <=> FailedCheck(au) = "none"

\* a key of the right length and the wrong alphabet: no lookup
C15_Witness ==
    /\ Unauthorized("a1") /\ auth["a1"] /= None /\ lookups["a1"] = 0
    /\ auth["a1"][1].public_key = Some(KeyUpper)

\* C16: an admission past the cache writes has written the attachment cache
\* iff its attachments are not None (an empty list is written), under the
\* cache_key of the payload and with the payload's timeout of 3600 seconds;
\* every entry of the attachment cache was written by an admission with
\* attachments, and an admission without attachments gets to Cached with
\* the payload write alone.
C16_AttachmentsCachedIffNotNone ==
    /\ \A a \in Admissions :
         (pc[a] \in {"Cached", "Enqueued"} \/ EndedWith(a, "EnqueueFailure")) =>
           LET k == frame[a][1].cache_key
           IN  /\ call[a][1].attachments /= None
                    <=> <<"attachment_cache", k>> \in Range(sets[a])
               /\ call[a][1].attachments /= None
                    => /\ k \in DOMAIN attachment_cache /\ k \in DOMAIN default_cache
                       /\ attachment_cache[k].timeout = 3600
                       /\ attachment_cache[k].timeout = default_cache[k].timeout
               /\ call[a][1].attachments = None => sets[a] = <<<<"default_cache", k>>>>
    /\ \A k \in DOMAIN attachment_cache :
         \E a \in Admissions :
            /\ call[a] /= None /\ call[a][1].attachments /= None
            /\ <<"attachment_cache", k>> \in Range(sets[a])
            /\ attachment_cache[k].value \in
                 {call[b][1].attachments[1] :
                    b \in {x \in Admissions : call[x] /= None /\ call[x][1].attachments /= None}}

\* an empty list of attachments is cached; the admission without attachments
\* is enqueued and the attachment cache holds the other's entry only
C16_Witness ==
    /\ pc["a1"] = "Cached" /\ call["a1"][1].attachments = Some(<<>>)
    /\ pc["a2"] = "Enqueued" /\ call["a2"][1].attachments = None
    /\ frame["a1"][1].cache_key /= frame["a2"][1].cache_key
    /\ DOMAIN attachment_cache = {frame["a1"][1].cache_key}

\* the claim auth_from_request makes of the fields of a header
FromHeader(a, h) ==
    IF Nonempty(h.fields)
    THEN /\ auth[a] /= None
         /\ auth[a][1].public_key = Get(h.fields, sentry_key)
         /\ auth[a][1].secret_key = Get(h.fields, sentry_secret)
    ELSE Unauthorized(a) /\ auth[a] = None

\* C17: without a query payload, a primary header that begins with the
\* scheme token is the one the claim is made of, whatever the legacy header
\* holds: two credential headers are no SuspiciousOperation, and a primary
\* header without fields is not made up for by the legacy header.  The
\* legacy header is the one the claim is made of only when the primary
\* header is absent or does not begin with the scheme token.
C17_LegacyHeaderIsFallback ==
    \A a \in Admissions :
        (Extracted(a) /\ ~HasQueryCredential(request[a][1])) =>
          LET M == request[a][1].META
          IN  /\ HasScheme(M, "HTTP_X_SENTRY_AUTH")
                   => /\ ~EndedWith(a, "MalformedRequest")
                      /\ FromHeader(a, M.HTTP_X_SENTRY_AUTH[1])
              /\ (~HasScheme(M, "HTTP_X_SENTRY_AUTH") /\ HasScheme(M, "HTTP_AUTHORIZATION"))
                   => /\ ~EndedWith(a, "MalformedRequest")
                      /\ FromHeader(a, M.HTTP_AUTHORIZATION[1])

\* both headers begin with the scheme token and name different keys
C17_Witness ==
    /\ Extracted("a1") /\ auth["a1"] /= None
    /\ HasScheme(request["a1"][1].META, "HTTP_X_SENTRY_AUTH")
    /\ HasScheme(request["a1"][1].META, "HTTP_AUTHORIZATION")
    /\ Get(request["a1"][1].META.HTTP_AUTHORIZATION[1].fields, sentry_key) = Some(KeyI)
    /\ auth["a1"][1].public_key = Some(KeyA)

\* C18: an admission whose task.delay raised ends in Failed with that
\* exception and returns nothing; it called task.delay once; the payload it
\* cached, and the attachments when it has any, are still in the caches; it
\* put no task on a queue: the queues hold one task for each admission that
\* is Enqueued and none for the others.
C18_EnqueueFailureLeavesCache ==
    /\ \A a \in Admissions :
         EndedWith(a, "EnqueueFailure") =>
           LET k == frame[a][1].cache_key
           IN  /\ pc[a] = "Failed" /\ returned[a] = None
               /\ Len(delays[a]) = 1
               /\ <<"default_cache", k>> \in Range(sets[a]) /\ k \in DOMAIN default_cache
               /\ call[a][1].attachments /= None
                    => /\ <<"attachment_cache", k>> \in Range(sets[a])
                       /\ k \in DOMAIN attachment_cache
    /\ QueuedTasks = Cardinality({a \in Admissions : pc[a] = "Enqueued"})

\* task.delay raised after the payload and the attachments were cached, and
\* no task is on a queue
C18_Witness ==
    /\ EndedWith("a1", "EnqueueFailure") /\ Len(sets["a1"]) = 2
    /\ frame["a1"][1].cache_key \in DOMAIN default_cache
    /\ frame["a1"][1].cache_key \in DOMAIN attachment_cache
    /\ pc["a2"] = "Idle" /\ QueuedTasks = 0

\* C19: a claim whose secret is the empty string is resolved as the same
\* claim without a secret is: it is authorized iff every check but the
\* secret's passes, whatever the stored secret; among claims that pass those
\* checks a non-empty secret is authorized iff it equals the stored one.
C19_EmptySecretIsNoSecret ==
    \A a \in Admissions :
        Resolved(a) =>
          LET au == auth[a][1]
              bare == [au EXCEPT !.secret_key = None]
          IN  /\ au.secret_key = Some(<<>>)
                   => /\ pc[a] = "Authorized" <=> OtherChecksPass(au)
                      /\ project_key[a] = project_key_from_auth(bare).value
                      /\ outcome[a] = project_key_from_auth(bare).error
                      /\ lookups[a] = IF ReachesLookup(bare) THEN 1 ELSE 0
              /\ (OtherChecksPass(au) /\ au.secret_key /= None /\ au.secret_key[1] /= <<>>)
                   => (pc[a] = "Authorized" <=> au.secret_key[1] = StoredKey(au).secret_key)

\* an empty secret is let through on a key that has a secret
C19_Witness ==
    /\ pc["a1"] = "Authorized" /\ auth["a1"][1].secret_key = Some(<<>>)
    /\ project_key["a1"] /= None /\ project_key["a1"][1].secret_key /= <<>>

\* C20: a request without a credential header, whose query string has
\* parameters with the reserved prefix and none named sentry_key, passes
\* auth_from_request: an Auth is made, with public_key None; it is then
\* rejected by the first check of project_key_from_auth with
\* APIUnauthorized("Invalid api key"), without a lookup.
C20_KeylessQueryRejectedByResolver ==
    \A a \in Admissions :
        (Extracted(a) /\ ~HasHeaderCredential(request[a][1])
           /\ HasQueryCredential(request[a][1])
           /\ sentry_key \notin DOMAIN request[a][1].GET)
          => /\ auth[a] /= None /\ auth[a][1].public_key = None
             /\ pc[a] = "Authenticating" => outcome[a] = None
             /\ Resolved(a)
                  => /\ Unauthorized(a) /\ outcome[a][1].msg = "Invalid api key"
                     /\ lookups[a] = 0 /\ project_key[a] = None

\* the query string holds an unrecognized parameter with the prefix only
C20_Witness ==
    /\ Unauthorized("a1") /\ auth["a1"] /= None /\ auth["a1"][1].public_key = None
    /\ DOMAIN request["a1"][1].GET = {sentry_ \o <<"x">>}
    /\ lookups["a1"] = 0

====
